---- MODULE Spec2Model ----
(***************************************************************************)
(* Model of the DataHandler of a vault node (src/data_handler/mod.rs) and  *)
(* of the chunk read gate Reading (src/node/adult_duties/chunks/reading.rs)*)
(*                                                                         *)
(* A handler runs to completion on one envelope; its return value          *)
(* (Option<Action>) is kept in `result`, the calls it made on its          *)
(* collaborators (idata_holder, idata_handler, mdata_handler,              *)
(* sdata_handler, ChunkStorage) in `calls`, its input in `last`.  The      *)
(* caller takes the returned value before it hands over the next envelope. *)
(***************************************************************************)
EXTENDS Integers, Sequences, FiniteSets, TLC

\* ------------------------------------------------------------------ bounds
MaxMsgIds == 2      \* number of distinct correlation ids (MessageId)
MaxNames == 2       \* number of distinct XorNames; name 1 is this node
MaxAddrs == 2       \* number of distinct chunk addresses
MaxClients == 1     \* number of distinct requesters besides this node

\* ------------------------------------------------------------------ values
MessageIds == 1..MaxMsgIds
Names == 1..MaxNames
Addresses == 1..MaxAddrs

\* XorName::default(), the name no node of the model has
DefaultName == 0

\* self.id.name()
OurName == 1

NodeId(n) == [kind |-> "Node", name |-> n]
ClientId(n) == [kind |-> "Client", name |-> n]

\* PublicId::Node(self.id.clone())
OurId == NodeId(OurName)

\* safe_nd::PublicId values that can appear as requester of an envelope
PublicIds == {OurId} \cup {ClientId(c) : c \in 1..MaxClients}

\* routing::SrcLocation
SrcNode(n) == [kind |-> "Node", name |-> n]
SrcSection == [kind |-> "Section", name |-> DefaultName]
SrcLocations == {SrcNode(n) : n \in Names \ {OurName}} \cup {SrcSection}

\* mutant: the test is made on the other variant
IsSectionInverted(src) == src.kind = "Node"

\* matches!(src, SrcLocation::Section(_))
IsSection(src) == src.kind = "Section"

\* utils::get_source_name(src)
GetSourceName(src) == IF src.kind = "Node" THEN src.name ELSE DefaultName

\* Option<Action>::None
None == [type |-> "None"]

\* a handler that does not return: a panic, as of Option::unwrap on None
Panic == [type |-> "Panic"]

\* the value a handler returns when it returns what its collaborator returned
Delegated == [type |-> "Delegated"]

\* a call on a collaborator: component, method and arguments
Call(comp, op, args) == [comp |-> comp, op |-> op, args |-> args]

\* what a collaborator may return for a call: nothing or an action of its own
CollaboratorReturn(call) == {None, [type |-> "Collaborator", of |-> call]}

VARIABLES
    idata_handler,   \* Option<IDataHandler> is Some
    mdata_handler,   \* Option<MDataHandler> is Some
    sdata_handler,   \* Option<SDataHandler> is Some
    idata_copy_op,   \* BTreeMap<MessageId, PublicId>
    copied,          \* the ids for which a duplication response was stored
    copied_before,   \* the id of the rpc handled last was in copied before it
    last,            \* the input of the operation that has just returned
    calls,           \* the collaborator calls that operation made
    result           \* what that operation returned

vars == <<idata_handler, mdata_handler, sdata_handler, idata_copy_op,
          copied, copied_before, last, calls, result>>

\* the fields of DataHandler that a handler reads or writes
Self == [idata_handler |-> idata_handler, mdata_handler |-> mdata_handler,
         sdata_handler |-> sdata_handler, idata_copy_op |-> idata_copy_op]

\* BTreeMap::insert on a vacant entry
MapInsert(map, k, v) == [x \in DOMAIN map \cup {k} |-> IF x = k THEN v ELSE map[x]]

EmptyMap == [x \in {} |-> OurId]

\* what a handler yields: the map after it, its calls, its return value
Outcome(map, cs, ret) == [idata_copy_op |-> map, calls |-> cs, ret |-> ret]

\* ------------------------------------------------------------ envelopes
\* an immutable chunk; data.address() is its address
Chunks == {[address |-> a] : a \in Addresses}

\* safe_nd::Request as far as handle_request distinguishes it
IDataPut(data) == [kind |-> "IData", op |-> "Put", data |-> data]
IDataGet(address) == [kind |-> "IData", op |-> "Get", address |-> address]
IDataDeleteUnpub(address) == [kind |-> "IData", op |-> "DeleteUnpub", address |-> address]
OtherRequest(kind) == [kind |-> kind, op |-> "Any"]

Requests ==
    {IDataPut(d) : d \in Chunks} \cup {IDataGet(a) : a \in Addresses}
    \cup {IDataDeleteUnpub(a) : a \in Addresses}
    \cup {OtherRequest(k) : k \in {"MData", "SData", "Coins", "LoginPacket", "Client"}}

\* safe_nd::Response as far as handle_response distinguishes it
MutationResp(ok) == [kind |-> "Mutation", ok |-> ok]
GetIDataOk(data) == [kind |-> "GetIData", ok |-> TRUE, data |-> data]
GetIDataErr == [kind |-> "GetIData", ok |-> FALSE]
OtherResponse == [kind |-> "Other", ok |-> TRUE]

Responses ==
    {MutationResp(ok) : ok \in BOOLEAN} \cup {GetIDataOk(d) : d \in Chunks}
    \cup {GetIDataErr, OtherResponse}

\* crate::rpc::Rpc
RpcRequest(request, requester, message_id) ==
    [type |-> "Request", request |-> request, requester |-> requester,
     message_id |-> message_id]
RpcResponse(response, message_id) ==
    [type |-> "Response", response |-> response, message_id |-> message_id]
RpcDuplicate(requester, address, holders, message_id) ==
    [type |-> "Duplicate", requester |-> requester, address |-> address,
     holders |-> holders, message_id |-> message_id]

\* --------------------------------------------- handle_duplicate_request
\* mutant: every entry is taken as vacant, so a repeated trigger fans out again
EntryVacantAlways(map, message_id) == TRUE

\* mutant: one fan-out at a time, an entry is vacant only in an empty map
EntryVacantIfEmpty(map, message_id) == DOMAIN map = {}

\* match self.idata_copy_op.entry(message_id): the Entry::Vacant arm
EntryVacant(map, message_id) == message_id \notin DOMAIN map

\* mutant: the fan-out leaves this node out of the targets
SendToPeersNotSelf(address, holders, message_id) ==
    [type |-> "SendToPeers", sender |-> OurName, targets |-> holders \ {OurName},
     rpc |-> RpcRequest(IDataGet(address), OurId, message_id)]

\* the Action::SendToPeers built in the vacant arm
SendToPeers(address, holders, message_id) ==
    [type |-> "SendToPeers", sender |-> OurName, targets |-> holders,
     rpc |-> RpcRequest(IDataGet(address), OurId, message_id)]

\* mutant: a node without router drops the trigger as not applicable to it
HandleDuplicateRequestElderOnly(self, requester, address, holders, message_id) ==
    IF ~self.idata_handler
    THEN Outcome(self.idata_copy_op, <<>>, None)
    ELSE IF EntryVacant(self.idata_copy_op, message_id)
         THEN Outcome(MapInsert(self.idata_copy_op, message_id, requester), <<>>,
                      SendToPeers(address, holders, message_id))
         ELSE Outcome(self.idata_copy_op, <<>>, None)

\* mutant: a repeated trigger records its requester over the one recorded
HandleDuplicateRequestOverwrite(self, requester, address, holders, message_id) ==
    IF EntryVacant(self.idata_copy_op, message_id)
    THEN Outcome(MapInsert(self.idata_copy_op, message_id, requester), <<>>,
                 SendToPeers(address, holders, message_id))
    ELSE Outcome(MapInsert(self.idata_copy_op, message_id, requester), <<>>, None)

HandleDuplicateRequest(self, requester, address, holders, message_id) ==
    IF EntryVacant(self.idata_copy_op, message_id)
    THEN Outcome(MapInsert(self.idata_copy_op, message_id, requester), <<>>,
                 SendToPeers(address, holders, message_id))
    ELSE Outcome(self.idata_copy_op, <<>>, None)

\* ------------------------------------------------- handle_idata_request
HandleIDataRequest(self, call) ==
    IF self.idata_handler
    THEN Outcome(self.idata_copy_op, <<call>>, Delegated)
    ELSE Outcome(self.idata_copy_op, <<>>, None)

\* --------------------------------------------------------- handle_request
\* a call on self.idata_holder, whose return value the handler returns
HolderCall(self, op, args) ==
    Outcome(self.idata_copy_op, <<Call("idata_holder", op, args)>>, Delegated)

\* the IData arm: holder for a Section source, idata_handler otherwise
HandleIDataArm(self, src, requester, request, message_id) ==
    CASE request.op = "Put" ->
            IF IsSection(src)
            THEN HolderCall(self, "store_idata", <<request.data, requester, message_id>>)
            ELSE HandleIDataRequest(self,
                    Call("idata_handler", "handle_put_idata_req",
                         <<requester, request.data, message_id>>))
      [] request.op = "Get" ->
            IF IsSection(src)
            THEN HolderCall(self, "get_idata", <<request.address, requester, message_id>>)
            ELSE HandleIDataRequest(self,
                    Call("idata_handler", "handle_get_idata_req",
                         <<requester, request.address, message_id>>))
      [] request.op = "DeleteUnpub" ->
            IF IsSection(src)
            THEN HolderCall(self, "delete_unpub_idata",
                            <<request.address, requester, message_id>>)
            ELSE HandleIDataRequest(self,
                    Call("idata_handler", "handle_delete_unpub_idata_req",
                         <<requester, request.address, message_id>>))

\* mutant: the sub-handler is called without looking whether it is there
HandleSubHandlerArmAlways(self, present, comp, requester, request, message_id) ==
    Outcome(self.idata_copy_op,
            <<Call(comp, "handle_request", <<requester, request, message_id>>)>>,
            Delegated)

\* the MData and SData arms: Option::map_or_else on the sub-handler
HandleSubHandlerArm(self, present, comp, requester, request, message_id) ==
    IF present
    THEN Outcome(self.idata_copy_op,
                 <<Call(comp, "handle_request", <<requester, request, message_id>>)>>,
                 Delegated)
    ELSE Outcome(self.idata_copy_op, <<>>, None)

\* mutant: the kinds that are not for a data handler go on to the router
HandleRequestForwardInvalid(self, src, requester, request, message_id) ==
    CASE request.kind = "IData" ->
            HandleIDataArm(self, src, requester, request, message_id)
      [] request.kind = "MData" ->
            HandleSubHandlerArm(self, self.mdata_handler, "mdata_handler",
                                requester, request, message_id)
      [] request.kind = "SData" ->
            HandleSubHandlerArm(self, self.sdata_handler, "sdata_handler",
                                requester, request, message_id)
      [] OTHER -> HandleIDataRequest(self,
                    Call("idata_handler", "handle_request",
                         <<requester, request, message_id>>))

HandleRequest(self, src, requester, request, message_id) ==
    CASE request.kind = "IData" ->
            HandleIDataArm(self, src, requester, request, message_id)
      [] request.kind = "MData" ->
            HandleSubHandlerArm(self, self.mdata_handler, "mdata_handler",
                                requester, request, message_id)
      [] request.kind = "SData" ->
            HandleSubHandlerArm(self, self.sdata_handler, "sdata_handler",
                                requester, request, message_id)
      [] OTHER -> Outcome(self.idata_copy_op, <<>>, None)

\* -------------------------------------------------------- handle_response
\* mutant: the copy is stored under this node's identity
CopyRequesterOurId(map, message_id) == OurId

\* self.idata_copy_op.get(&message_id).unwrap().clone()
CopyRequester(map, message_id) == map[message_id]

\* the map without the entry of message_id
MapRemove(map, message_id) == [x \in DOMAIN map \ {message_id} |-> map[x]]

\* mutant: a failed copy response gives the duplication up and drops its entry
HandleCopyResponseDropOnErr(self, src, response, message_id) ==
    IF response.ok
    THEN HolderCall(self, "store_idata",
                    <<response.data, self.idata_copy_op[message_id], message_id>>)
    ELSE Outcome(MapRemove(self.idata_copy_op, message_id), <<>>, None)

\* mutant: the entry is removed by the response that satisfies it
HandleCopyResponseRemoveOnOk(self, src, response, message_id) ==
    IF response.ok
    THEN Outcome(MapRemove(self.idata_copy_op, message_id),
                 <<Call("idata_holder", "store_idata",
                        <<response.data, self.idata_copy_op[message_id], message_id>>)>>,
                 Delegated)
    ELSE Outcome(self.idata_copy_op, <<>>, None)

\* self.idata_copy_op.get(&message_id) is None, on which unwrap() panics
GetIsNone(map, message_id) == message_id \notin DOMAIN map

\* the GetIData arm when the id is in idata_copy_op
HandleCopyResponse(self, src, response, message_id) ==
    IF response.ok
    THEN IF GetIsNone(self.idata_copy_op, message_id)
         THEN Outcome(self.idata_copy_op, <<>>, Panic)
         ELSE HolderCall(self, "store_idata",
                         <<response.data, CopyRequester(self.idata_copy_op, message_id),
                           message_id>>)
    ELSE Outcome(self.idata_copy_op, <<>>, None)

\* mutant: every id is taken as pending
ContainsKeyAlways(map, message_id) == TRUE

\* self.idata_copy_op.contains_key(&message_id)
ContainsKey(map, message_id) == message_id \in DOMAIN map

\* mutant: a mutation result whose id is pending is taken for a copy and dropped
HandleResponseMutationPending(self, src, response, message_id) ==
    CASE response.kind = "Mutation" ->
            IF ContainsKey(self.idata_copy_op, message_id)
            THEN Outcome(self.idata_copy_op, <<>>, None)
            ELSE HandleIDataRequest(self,
                    Call("idata_handler", "handle_mutation_resp",
                         <<src, response.ok, message_id>>))
      [] response.kind = "GetIData" ->
            IF ContainsKey(self.idata_copy_op, message_id)
            THEN HandleCopyResponse(self, src, response, message_id)
            ELSE HandleIDataRequest(self,
                    Call("idata_handler", "handle_get_idata_resp",
                         <<src, response, message_id>>))
      [] OTHER -> Outcome(self.idata_copy_op, <<>>, None)

\* mutant: a successful copy is not stored but passed on to the router
HandleResponseOkToRouter(self, src, response, message_id) ==
    CASE response.kind = "Mutation" ->
            HandleIDataRequest(self,
                Call("idata_handler", "handle_mutation_resp",
                     <<src, response.ok, message_id>>))
      [] response.kind = "GetIData" ->
            IF ContainsKey(self.idata_copy_op, message_id) /\ ~response.ok
            THEN HandleCopyResponse(self, src, response, message_id)
            ELSE HandleIDataRequest(self,
                    Call("idata_handler", "handle_get_idata_resp",
                         <<src, response, message_id>>))
      [] OTHER -> Outcome(self.idata_copy_op, <<>>, None)

HandleResponse(self, src, response, message_id) ==
    CASE response.kind = "Mutation" ->
            HandleIDataRequest(self,
                Call("idata_handler", "handle_mutation_resp",
                     <<src, response.ok, message_id>>))
      [] response.kind = "GetIData" ->
            IF ContainsKey(self.idata_copy_op, message_id)
            THEN HandleCopyResponse(self, src, response, message_id)
            ELSE HandleIDataRequest(self,
                    Call("idata_handler", "handle_get_idata_resp",
                         <<src, response, message_id>>))
      [] OTHER -> Outcome(self.idata_copy_op, <<>>, None)

\* ------------------------------------------------------- handle_vault_rpc
HandleVaultRpc(self, src, rpc) ==
    CASE rpc.type = "Request" ->
            HandleRequest(self, src, rpc.requester, rpc.request, rpc.message_id)
      [] rpc.type = "Response" ->
            HandleResponse(self, GetSourceName(src), rpc.response, rpc.message_id)
      [] rpc.type = "Duplicate" ->
            HandleDuplicateRequest(self, rpc.requester, rpc.address, rpc.holders,
                                   rpc.message_id)

\* ---------------------------------------------- trigger_chunk_duplication
\* mutant: a departure clears the pending duplications
TriggerChunkDuplicationOpClear(self, node) ==
    IF self.idata_handler
    THEN Outcome(EmptyMap,
                 <<Call("idata_handler", "trigger_data_copy_process", <<node>>)>>,
                 Delegated)
    ELSE Outcome(EmptyMap, <<>>, None)

\* mutant: the router is called without looking whether it is there
TriggerChunkDuplicationOpAlways(self, node) ==
    Outcome(self.idata_copy_op,
            <<Call("idata_handler", "trigger_data_copy_process", <<node>>)>>,
            Delegated)

TriggerChunkDuplicationOp(self, node) ==
    IF self.idata_handler
    THEN Outcome(self.idata_copy_op,
                 <<Call("idata_handler", "trigger_data_copy_process", <<node>>)>>,
                 Delegated)
    ELSE Outcome(self.idata_copy_op, <<>>, None)

\* ------------------------------------------------------ Reading::get_result
\* safe_nd::MsgSender variants
SenderKinds == {"Client", "Node", "Section"}

\* MsgSender::address(): the Address variant of a sender
SenderAddress(sender) ==
    CASE sender = "Client" -> "Client"
      [] sender = "Node" -> "Node"
      [] sender = "Section" -> "Section"

\* safe_nd::MsgEnvelope as far as Reading reads it; verifies is msg.verify()
MsgEnvelopes ==
    [most_recent_sender : SenderKinds, verifies : BOOLEAN, id : MessageIds,
     origin : Names]

\* BlobRead::Get(address)
BlobReads == {[op |-> "Get", address |-> a] : a \in Addresses}

\* mutant: a Section sender is trusted without verifying the signature
VerifyMsgUnchecked(msg) == msg.most_recent_sender = "Section"

\* Reading::verify_msg
VerifyMsg(msg) ==
    IF msg.most_recent_sender = "Section" THEN msg.verifies ELSE FALSE

\* mutant: the read is served on the sender's classification alone
GetResultOpNoVerify(read, msg) ==
    IF SenderAddress(msg.most_recent_sender) = "Section"
    THEN [calls |-> <<Call("storage", "get", <<read.address, msg.id, msg.origin>>)>>,
          ret |-> Delegated]
    ELSE [calls |-> <<>>, ret |-> None]

\* mutant: the branch for a Node sender, commented out in the source, is live
GetResultOpNodeBranch(read, msg) ==
    IF SenderAddress(msg.most_recent_sender) = "Section"
    THEN IF VerifyMsg(msg)
         THEN [calls |-> <<Call("storage", "get", <<read.address, msg.id, msg.origin>>)>>,
               ret |-> Delegated]
         ELSE [calls |-> <<>>, ret |-> None]
    ELSE IF msg.most_recent_sender = "Node" /\ msg.verifies
         THEN [calls |-> <<Call("storage", "get", <<read.address, msg.id, msg.origin>>)>>,
               ret |-> Delegated]
         ELSE [calls |-> <<>>, ret |-> None]

\* Reading::get_result
GetResultOp(read, msg) ==
    IF SenderAddress(msg.most_recent_sender) = "Section"
    THEN IF VerifyMsg(msg)
         THEN [calls |-> <<Call("storage", "get", <<read.address, msg.id, msg.origin>>)>>,
               ret |-> Delegated]
         ELSE [calls |-> <<>>, ret |-> None]
    ELSE [calls |-> <<>>, ret |-> None]

\* ------------------------------------------------------------- the machine
\* no operation has returned a value that the caller has yet to take
Idle == [op |-> "idle"]

\* the values a handler can return, given what its collaborator can return
Returns(o) ==
    IF o.ret = Delegated THEN CollaboratorReturn(o.calls[Len(o.calls)]) ELSE {o.ret}

\* mutant: an elder is built with its router but without the other two
InitRouterOnly ==
    \E is_elder \in BOOLEAN :
        /\ idata_handler = is_elder
        /\ mdata_handler = FALSE
        /\ sdata_handler = FALSE
        /\ idata_copy_op = EmptyMap
        /\ copied = {}
        /\ copied_before = FALSE
        /\ last = Idle
        /\ calls = <<>>
        /\ result = None

\* DataHandler::new: the sub-handlers exist if and only if is_elder
Init ==
    \E is_elder \in BOOLEAN :
        /\ idata_handler = is_elder
        /\ mdata_handler = is_elder
        /\ sdata_handler = is_elder
        /\ idata_copy_op = EmptyMap
        /\ copied = {}
        /\ copied_before = FALSE
        /\ last = Idle
        /\ calls = <<>>
        /\ result = None

\* a response for which handle_response called the holder's store
CopyStored(rpc, o) ==
    /\ rpc.type = "Response"
    /\ o.calls # <<>>
    /\ o.calls[1].comp = "idata_holder"

\* one call of handle_vault_rpc(src, rpc)
VaultRpc(src, rpc) ==
    LET o == HandleVaultRpc(Self, src, rpc) IN
    /\ last = Idle
    /\ idata_copy_op' = o.idata_copy_op
    /\ calls' = o.calls
    /\ \E r \in Returns(o) : result' = r
    /\ last' = [op |-> "handle_vault_rpc", src |-> src, rpc |-> rpc]
    /\ copied' = IF CopyStored(rpc, o) THEN copied \cup {rpc.message_id} ELSE copied
    /\ copied_before' = (rpc.message_id \in copied)
    /\ UNCHANGED <<idata_handler, mdata_handler, sdata_handler>>

Request ==
    \E src \in SrcLocations, request \in Requests, requester \in PublicIds,
       message_id \in MessageIds :
        VaultRpc(src, RpcRequest(request, requester, message_id))

Response ==
    \E src \in SrcLocations, response \in Responses, message_id \in MessageIds :
        VaultRpc(src, RpcResponse(response, message_id))

Duplicate ==
    \E src \in SrcLocations, requester \in PublicIds, address \in Addresses,
       holders \in SUBSET Names, message_id \in MessageIds :
        VaultRpc(src, RpcDuplicate(requester, address, holders, message_id))

\* one call of trigger_chunk_duplication(node)
TriggerChunkDuplication ==
    \E node \in Names :
        LET o == TriggerChunkDuplicationOp(Self, node) IN
        /\ last = Idle
        /\ idata_copy_op' = o.idata_copy_op
        /\ calls' = o.calls
        /\ \E r \in Returns(o) : result' = r
        /\ last' = [op |-> "trigger_chunk_duplication", node |-> node]
        /\ copied_before' = FALSE
        /\ UNCHANGED <<idata_handler, mdata_handler, sdata_handler, copied>>

\* Reading::new(read, msg).get_result(storage)
GetResult ==
    \E read \in BlobReads, msg \in MsgEnvelopes :
        LET o == GetResultOp(read, msg) IN
        /\ last = Idle
        /\ calls' = o.calls
        /\ \E r \in Returns(o) : result' = r
        /\ last' = [op |-> "get_result", read |-> read, msg |-> msg]
        /\ copied_before' = FALSE
        /\ UNCHANGED <<idata_handler, mdata_handler, sdata_handler, idata_copy_op,
                       copied>>

\* the caller takes what the operation returned; the node's fields stay
TakeResult ==
    /\ last # Idle
    /\ last' = Idle
    /\ calls' = <<>>
    /\ result' = None
    /\ copied_before' = FALSE
    /\ UNCHANGED <<idata_handler, mdata_handler, sdata_handler, idata_copy_op,
                   copied>>

Next ==
    \/ Request
    \/ Response
    \/ Duplicate
    \/ TriggerChunkDuplication
    \/ GetResult
    \/ TakeResult

Spec == Init /\ [][Next]_vars

\* ------------------------------------------------------------ properties
\* the operation handled last was handle_vault_rpc on an envelope of this type
IsRpc(l, type) == l.op = "handle_vault_rpc" /\ l.rpc.type = type

\* the envelope handled last was a chunk-fetch response with this result
IsGetIDataResp(l, ok) ==
    /\ IsRpc(l, "Response")
    /\ l.rpc.response.kind = "GetIData"
    /\ l.rpc.response.ok = ok

\* the fields of the node that no handler may change, and the record of copies
NodeUnchanged ==
    UNCHANGED <<idata_handler, mdata_handler, sdata_handler, idata_copy_op, copied>>

\* C1: a duplication trigger whose id is not pending returns one SendToPeers
\* and makes the id pending; a trigger whose id is pending returns no action,
\* calls nothing and leaves the map as it was, whatever else it carries.
C1_DuplicateOnce ==
    [][IsRpc(last', "Duplicate") =>
        LET m == last'.rpc.message_id IN
        IF m \notin DOMAIN idata_copy_op
        THEN /\ result'.type = "SendToPeers"
             /\ calls' = <<>>
             /\ m \in DOMAIN idata_copy_op'
        ELSE /\ result' = None
             /\ calls' = <<>>
             /\ idata_copy_op' = idata_copy_op]_vars

\* C1 witness: a second trigger, naming another requester, another address
\* or holder set than recorded, was absorbed
C1_Witness ==
    /\ IsRpc(last, "Duplicate")
    /\ result = None
    /\ last.rpc.message_id \in DOMAIN idata_copy_op
    /\ idata_copy_op[last.rpc.message_id] # last.rpc.requester
    /\ last.rpc.holders # {}

\* C2: a successful chunk-fetch response whose id is pending makes exactly one
\* call, the holder's store_idata, with the response's chunk, the requester
\* recorded for the id in the map, and the id.
C2_StoreUnderRecordedRequester ==
    [][(IsGetIDataResp(last', TRUE) /\ last'.rpc.message_id \in DOMAIN idata_copy_op) =>
        LET m == last'.rpc.message_id IN
        calls' = <<Call("idata_holder", "store_idata",
                        <<last'.rpc.response.data, idata_copy_op[m], m>>)>>]_vars

\* C2 witness: a copy from a replying peer was stored under a recorded
\* requester that is neither this node nor named as the peer
C2_Witness ==
    /\ IsGetIDataResp(last, TRUE)
    /\ last.rpc.message_id \in DOMAIN idata_copy_op
    /\ last.src.kind = "Node"
    /\ calls # <<>>
    /\ calls[1].op = "store_idata"
    /\ calls[1].args[2] # OurId
    /\ calls[1].args[2].name # last.src.name

\* C3: a failed chunk-fetch response whose id is pending returns no action,
\* calls neither the holder nor the router, and leaves the map as it was.
C3_FailedCopyIgnored ==
    [][(IsGetIDataResp(last', FALSE) /\ last'.rpc.message_id \in DOMAIN idata_copy_op) =>
        /\ result' = None
        /\ calls' = <<>>
        /\ idata_copy_op' = idata_copy_op]_vars

\* C3 witness: a failure arrived for a pending id on a node that has a router
C3_Witness ==
    /\ IsGetIDataResp(last, FALSE)
    /\ last.rpc.message_id \in DOMAIN idata_copy_op
    /\ idata_handler
    /\ result = None
    /\ calls = <<>>

\* the holder method and the router method of a chunk request kind
HolderOpOf(op) ==
    CASE op = "Put" -> "store_idata"
      [] op = "Get" -> "get_idata"
      [] op = "DeleteUnpub" -> "delete_unpub_idata"

RouterOpOf(op) ==
    CASE op = "Put" -> "handle_put_idata_req"
      [] op = "Get" -> "handle_get_idata_req"
      [] op = "DeleteUnpub" -> "handle_delete_unpub_idata_req"

C5_NonSectionRejected ==
    (last.op = "get_result" /\ last.msg.most_recent_sender # "Section") =>
        (result = None /\ calls = <<>>)

\* C5 witness: a read from a Node sender with a valid signature was refused
C5_Witness ==
    /\ last.op = "get_result"
    /\ last.msg.most_recent_sender = "Node"
    /\ last.msg.verifies
    /\ result = None
    /\ calls = <<>>

\* C6: get_result returns no action and does not call storage.get when the
\* signature does not verify, also for a Section sender.
C6_BadSignatureRejected ==
    (last.op = "get_result" /\ ~last.msg.verifies) =>
        (result = None /\ calls = <<>>)

\* C6 witness: a read from a Section sender with a bad signature was refused
C6_Witness ==
    /\ last.op = "get_result"
    /\ last.msg.most_recent_sender = "Section"
    /\ ~last.msg.verifies
    /\ result = None
    /\ calls = <<>>

\* C7: on a node without mdata_handler and sdata_handler a mutable-data or
\* structured-data request returns no action, calls nothing and changes no
\* field of the node.
C7_AdultIgnoresMDataSData ==
    [][(/\ IsRpc(last', "Request")
        /\ last'.rpc.request.kind \in {"MData", "SData"}
        /\ ~mdata_handler
        /\ ~sdata_handler) =>
        (result' = None /\ calls' = <<>> /\ NodeUnchanged)]_vars

\* C7 witness: a storage-role node with a duplication pending dropped a
\* structured-data request of a Section sender
C7_Witness ==
    /\ IsRpc(last, "Request")
    /\ last.rpc.request.kind = "SData"
    /\ last.src.kind = "Section"
    /\ ~sdata_handler
    /\ ~mdata_handler
    /\ idata_copy_op # EmptyMap
    /\ result = None
    /\ calls = <<>>

\* C8: an id whose copy was stored stays pending, and a later successful
\* chunk-fetch response with that id again makes exactly one call, the
\* holder's store_idata with the requester recorded for the id, and none on
\* the router.
C8_EntryKeptAfterSuccess ==
    /\ \A m \in copied : m \in DOMAIN idata_copy_op
    /\ (IsGetIDataResp(last, TRUE) /\ copied_before) =>
            calls = <<Call("idata_holder", "store_idata",
                           <<last.rpc.response.data,
                             idata_copy_op[last.rpc.message_id],
                             last.rpc.message_id>>)>>

\* C8 witness: a second successful response for an id was stored on a node
\* that has a router
C8_Witness ==
    /\ IsGetIDataResp(last, TRUE)
    /\ copied_before
    /\ idata_handler
    /\ calls # <<>>
    /\ calls[1].comp = "idata_holder"

\* C9: the action returned for a trigger whose id is not pending is a
\* SendToPeers from this node's name to exactly the trigger's holders, of a
\* chunk Get request for the trigger's address with the trigger's id and
\* this node as requester.
C9_FanOutShape ==
    [][(IsRpc(last', "Duplicate") /\ last'.rpc.message_id \notin DOMAIN idata_copy_op) =>
        result' = [type |-> "SendToPeers",
                   sender |-> OurName,
                   targets |-> last'.rpc.holders,
                   rpc |-> [type |-> "Request",
                            request |-> [kind |-> "IData", op |-> "Get",
                                         address |-> last'.rpc.address],
                            requester |-> OurId,
                            message_id |-> last'.rpc.message_id]]]_vars

\* C9 witness: a fan-out to a holder set that includes this node, for a
\* requester other than this node
C9_Witness ==
    /\ IsRpc(last, "Duplicate")
    /\ result.type = "SendToPeers"
    /\ last.rpc.requester # OurId
    /\ OurName \in last.rpc.holders
    /\ Cardinality(result.targets) >= 2
    /\ result.rpc.requester = OurId

\* C10: trigger_chunk_duplication on a node without idata_handler returns
\* nothing, calls nothing and changes no field of the node, whatever node
\* is named.
C10_AdultTriggerNoOp ==
    [][(last'.op = "trigger_chunk_duplication" /\ ~idata_handler) =>
        (result' = None /\ calls' = <<>> /\ NodeUnchanged)]_vars

\* C10 witness: a storage-role node with a duplication pending was told of a
\* departed node
C10_Witness ==
    /\ last.op = "trigger_chunk_duplication"
    /\ ~idata_handler
    /\ idata_copy_op # EmptyMap
    /\ result = None
    /\ calls = <<>>

\* C11: idata_handler, mdata_handler and sdata_handler are all present or
\* all absent in every state, from construction on, and no step changes
\* which of them are present.
C11_HandlersAsGroup ==
    /\ [](idata_handler = mdata_handler /\ mdata_handler = sdata_handler)
    /\ [][UNCHANGED <<idata_handler, mdata_handler, sdata_handler>>]_vars

\* C11 witness: an elder that has handled a trigger and a mutable-data
\* request still has all three sub-handlers
C11_Witness ==
    /\ IsRpc(last, "Request")
    /\ last.rpc.request.kind = "MData"
    /\ idata_handler
    /\ mdata_handler
    /\ sdata_handler
    /\ idata_copy_op # EmptyMap
    /\ calls # <<>>

\* C12: a Coins, LoginPacket or Client request returns no action, calls
\* neither the holder nor a sub-handler and changes no field of the node,
\* for every sender and on a node of either role.
C12_InvalidRequestDropped ==
    [][(/\ IsRpc(last', "Request")
        /\ last'.rpc.request.kind \in {"Coins", "LoginPacket", "Client"}) =>
        (result' = None /\ calls' = <<>> /\ NodeUnchanged)]_vars

\* C12 witness: an elder with a duplication pending dropped a LoginPacket
\* request of a Section sender
C12_Witness ==
    /\ IsRpc(last, "Request")
    /\ last.rpc.request.kind = "LoginPacket"
    /\ last.src.kind = "Section"
    /\ idata_handler
    /\ idata_copy_op # EmptyMap
    /\ result = None
    /\ calls = <<>>

\* C13: a mutation-result response makes one call, the router's
\* handle_mutation_resp with the source name, the result and the id, on a
\* node that has a router, and no call and no action on one that has none;
\* whether the id is pending makes no difference, and the map stays.
C13_MutationToRouter ==
    [][(IsRpc(last', "Response") /\ last'.rpc.response.kind = "Mutation") =>
        /\ idata_copy_op' = idata_copy_op
        /\ IF idata_handler
           THEN calls' = <<Call("idata_handler", "handle_mutation_resp",
                                <<GetSourceName(last'.src), last'.rpc.response.ok,
                                  last'.rpc.message_id>>)>>
           ELSE calls' = <<>> /\ result' = None]_vars

\* C13 witness: a mutation result whose id is pending reached the router
C13_Witness ==
    /\ IsRpc(last, "Response")
    /\ last.rpc.response.kind = "Mutation"
    /\ last.rpc.message_id \in DOMAIN idata_copy_op
    /\ calls # <<>>
    /\ calls[1].op = "handle_mutation_resp"

\* C14: a chunk-fetch response whose id is not pending when it is handled
\* makes one call, the router's handle_get_idata_resp, or none and no action
\* on a node without router; one whose id is pending makes no call on the
\* router, whether it carries a chunk or a failure.
C14_RouterIffMiss ==
    [][(IsRpc(last', "Response") /\ last'.rpc.response.kind = "GetIData") =>
        IF last'.rpc.message_id \in DOMAIN idata_copy_op
        THEN \A i \in 1..Len(calls') : calls'[i].comp # "idata_handler"
        ELSE IF idata_handler
             THEN calls' = <<Call("idata_handler", "handle_get_idata_resp",
                                  <<GetSourceName(last'.src), last'.rpc.response,
                                    last'.rpc.message_id>>)>>
             ELSE calls' = <<>> /\ result' = None]_vars

\* C14 witness: a chunk arrived for an id that no trigger had named, while
\* another id was pending, and went to the router
C14_Witness ==
    /\ IsGetIDataResp(last, TRUE)
    /\ last.rpc.message_id \notin DOMAIN idata_copy_op
    /\ idata_copy_op # EmptyMap
    /\ calls # <<>>
    /\ calls[1].op = "handle_get_idata_resp"

\* C15: an id recorded in the map with a requester is recorded with the same
\* requester after every step: no request, response, repeated trigger or
\* departure notice removes or overwrites an entry.
C15_EntryKeptForever ==
    [][\A m \in DOMAIN idata_copy_op :
          /\ m \in DOMAIN idata_copy_op'
          /\ idata_copy_op'[m] = idata_copy_op[m]]_vars

\* C15 witness: an elder was told of a departed node after it had stored a
\* copy, and the entries of the stored copies are still there
C15_Witness ==
    /\ last.op = "trigger_chunk_duplication"
    /\ idata_handler
    /\ calls # <<>>
    /\ copied # {}
    /\ copied \subseteq DOMAIN idata_copy_op

\* C16: the only step that changes the map is the handling of a duplication
\* trigger whose id is not in it, which adds the id with the trigger's
\* requester; requests, responses and triggers for an id that is in the map
\* leave the map as it was.
C16_MapChangedByNewTriggerOnly ==
    [][idata_copy_op' # idata_copy_op =>
        /\ IsRpc(last', "Duplicate")
        /\ last'.rpc.message_id \notin DOMAIN idata_copy_op
        /\ idata_copy_op' = MapInsert(idata_copy_op, last'.rpc.message_id,
                                      last'.rpc.requester)]_vars

\* C16 witness: a trigger added a second id to the map
C16_Witness ==
    /\ IsRpc(last, "Duplicate")
    /\ result.type = "SendToPeers"
    /\ Cardinality(DOMAIN idata_copy_op) = 2
    /\ idata_copy_op[last.rpc.message_id] = last.rpc.requester

\* the entries of a map for the ids in S
Restrict(map, S) == [x \in DOMAIN map \cap S |-> map[x]]

\* C17: handling a trigger or a chunk-fetch response for an id leaves the
\* entry of every other id (its presence and requester) as it was, and its
\* calls, its return value and the entry of its own id are those it would
\* have in a node whose map holds no other id; so the envelopes of two
\* cycles do not interact, in whatever order they are handled.
C17_IdsIndependent ==
    [][(\/ IsRpc(last', "Duplicate")
        \/ (IsRpc(last', "Response") /\ last'.rpc.response.kind = "GetIData")) =>
        LET m == last'.rpc.message_id
            alone == [Self EXCEPT !.idata_copy_op = Restrict(idata_copy_op, {m})]
            o == HandleVaultRpc(alone, last'.src, last'.rpc)
        IN /\ calls' = o.calls
           /\ result' \in Returns(o)
           /\ Restrict(idata_copy_op', {m}) = o.idata_copy_op
           /\ Restrict(idata_copy_op', MessageIds \ {m})
                = Restrict(idata_copy_op, MessageIds \ {m})]_vars

\* C17 witness: with two ids pending for two requesters, a chunk for one of
\* them was stored under its own requester
C17_Witness ==
    /\ IsGetIDataResp(last, TRUE)
    /\ \E a, b \in DOMAIN idata_copy_op :
          /\ a = last.rpc.message_id
          /\ b # a
          /\ idata_copy_op[a] # idata_copy_op[b]
          /\ calls # <<>>
          /\ calls[1].args[2] = idata_copy_op[a]

\* C18: when the most recent sender is a Section and the signature verifies,
\* get_result makes exactly one call, storage.get with the read's address,
\* the envelope's id and the envelope's origin, and returns what that call
\* returned; in every other case it makes no call and returns no action.
C18_ReadDelegatesWhenBothGatesPass ==
    last.op = "get_result" =>
        IF last.msg.most_recent_sender = "Section" /\ last.msg.verifies
        THEN /\ calls = <<Call("storage", "get",
                               <<last.read.address, last.msg.id, last.msg.origin>>)>>
             /\ result \in CollaboratorReturn(calls[1])
        ELSE calls = <<>> /\ result = None

\* C18 witness: a verified read of a Section sender returned the action that
\* storage.get returned for it
C18_Witness ==
    /\ last.op = "get_result"
    /\ last.msg.most_recent_sender = "Section"
    /\ last.msg.verifies
    /\ Len(calls) = 1
    /\ result = [type |-> "Collaborator", of |-> calls[1]]

\* C19: no operation panics: in particular the unwrap on the copy path of
\* handle_response always finds the entry of the id.
C19_NeverPanics == result # Panic

\* C19 witness: the unwrap was reached for a second chunk of the same id and
\* found the entry
C19_Witness ==
    /\ IsGetIDataResp(last, TRUE)
    /\ copied_before
    /\ ~GetIsNone(idata_copy_op, last.rpc.message_id)
    /\ Len(calls) = 1
    /\ calls[1].op = "store_idata"
    /\ result = [type |-> "Collaborator", of |-> calls[1]]

\* the node with the other role
FlipRole(self) ==
    [self EXCEPT !.idata_handler = ~@, !.mdata_handler = ~@, !.sdata_handler = ~@]

\* the step handled its envelope as a node of the other role would have
RoleBlind ==
    LET o == HandleVaultRpc(FlipRole(Self), last'.src, last'.rpc) IN
    /\ calls' = o.calls
    /\ result' \in Returns(o)
    /\ idata_copy_op' = o.idata_copy_op

\* a node without router returned no action and called nothing
AdultNoAction == ~idata_handler => (result' = None /\ calls' = <<>>)

\* C20 as stated: the role affects only responses whose id is not pending and
\* requests of senders that are not a Section, which a storage-role node
\* drops; every other envelope is handled alike by both roles.
C20_AsStated ==
    [][last'.op = "handle_vault_rpc" =>
        IF \/ (IsRpc(last', "Response")
                /\ last'.rpc.message_id \notin DOMAIN idata_copy_op)
           \/ (IsRpc(last', "Request") /\ last'.src.kind # "Section")
        THEN AdultNoAction
        ELSE RoleBlind]_vars

\* the envelopes whose handling looks at the sub-handlers
RoleMatters(l, map) ==
    \/ /\ IsRpc(l, "Response")
       /\ l.rpc.response.kind = "GetIData"
       /\ l.rpc.message_id \notin DOMAIN map
    \/ IsRpc(l, "Response") /\ l.rpc.response.kind = "Mutation"
    \/ /\ IsRpc(l, "Request")
       /\ l.rpc.request.kind = "IData"
       /\ l.src.kind # "Section"
    \/ IsRpc(l, "Request") /\ l.rpc.request.kind \in {"MData", "SData"}

\* C20 (amended): triggers, chunk-fetch responses whose id is pending and
\* chunk requests of a Section sender are handled alike by both roles, as is
\* every envelope that is dropped as invalid; the role affects chunk-fetch
\* responses whose id is not pending, mutation results, chunk requests of
\* senders that are not a Section and mutable-data and structured-data
\* requests of every sender, and a storage-role node drops all of these.
C20_RoleOnlyWhereRouted ==
    [][last'.op = "handle_vault_rpc" =>
        IF RoleMatters(last', idata_copy_op) THEN AdultNoAction ELSE RoleBlind]_vars

\* C20 witness: a storage-role node stored a chunk under the requester it had
\* recorded from a trigger
C20_Witness ==
    /\ IsGetIDataResp(last, TRUE)
    /\ ~idata_handler
    /\ last.rpc.message_id \in DOMAIN idata_copy_op
    /\ Len(calls) = 1
    /\ calls[1].comp = "idata_holder"
    /\ calls[1].args[2] = idata_copy_op[last.rpc.message_id]
    /\ calls[1].args[2] # OurId

====
